---- MODULE Spec2Model ----
(***************************************************************************)
(* A model of the protodb record store (data/table.go): one Table, its     *)
(* encrypted file, its in-memory Indexes and its sync.RWMutex, driven by   *)
(* concurrent goroutines calling Insert, Update, Delete, SelectAll and     *)
(* LoadIndexes, and joined with a second Table (pkg/data/joins.go).        *)
(***************************************************************************)
EXTENDS Naturals, Integers, Sequences, FiniteSets, Bags, TLC

\* ---------------------------------------------------------------- bounds
NumProcs == 2
MaxCalls == 3
MaxFaults == 1

\* ------------------------------------------------------------ the values
Procs == 1..NumProcs

\* Table.PrimaryKey and the field names a Record may carry.
PrimaryKey == "id"
FieldNames == {"id", "f"}

\* interface{} values of a Record: Go strings, and one value that is not a
\* string (the int 7, written "#7" here).
Str == {"a", "b"}
NonStr == {"#7"}
Vals == Str \cup NonStr

IsString(v) == v \in Str

\* fmt.Sprintf("%v", v) of an interface{} value; a missing map entry is nil.
SprintfV(rec, field) ==
  IF field \notin DOMAIN rec THEN "<nil>"
  ELSE IF IsString(rec[field]) THEN rec[field]
  ELSE "7"

\* type Record map[string]interface{}: the records a caller can pass.
InputRecords == UNION {[D -> Vals] : D \in SUBSET FieldNames}

\* The keys a caller passes to Update and Delete.
InputKeys == Str \cup {"<nil>"}

\* The arguments drawn in the runs with several goroutines, where the
\* interleaving is the matter: records with a string primary key, updates of
\* the second field alone.
ConcRecords ==
  {r \in InputRecords : PrimaryKey \in DOMAIN r /\ IsString(r[PrimaryKey])}
ConcUpdates == {r \in InputRecords : DOMAIN r = FieldNames \ {PrimaryKey}}
ConcKeys == Str

NoOp == [kind |-> "none"]
None == [none |-> TRUE]
\* The record under construction or under update, while the loop that
\* stores its pointer in Indexes is still changing it.
This == [self |-> TRUE]

MapPut(m, k, v) == [x \in DOMAIN m \cup {k} |-> IF x = k THEN v ELSE m[x]]
MapDel(m, k) == [x \in DOMAIN m \ {k} |-> m[x]]

\* range over a Go map: the keys in an order the runtime picks.
Orders(S) ==
  {s \in [1..Cardinality(S) -> S] : \A i, j \in 1..Cardinality(S) : i # j => s[i] # s[j]}

\* ------------------------------------------------------ codec and file
\* proto.Marshal / proto.Unmarshal of dbdata.Records, utils.Encrypt / Decrypt.
Marshal(recs) == [pb |-> recs]
Unmarshal(data) == data.pb
Encrypt(data) == [ct |-> data]
Decrypt(text) == text.ct

\* A file of length 0: what O_TRUNC leaves until Write has run.
ZeroBytes == [len |-> 0]
EmptyRecords == <<>>

readRecordsFromFile(f) ==
  IF f = ZeroBytes THEN EmptyRecords ELSE Unmarshal(Decrypt(f))

Encoded(recs) == Encrypt(Marshal(recs))

\* ---------------------------------------------------------------- state
VARIABLES
  file,      \* the content of Table.FilePath
  Indexes,   \* Table.Indexes: field -> value -> the record the pointer shows
  wHolder,   \* RWMutex: the goroutine that holds w (0: none)
  readers,   \* RWMutex: the goroutines holding the lock in shared mode
  pc,        \* each goroutine's position
  op,        \* each goroutine's call and its arguments
  loc,       \* each goroutine's local allRecords / records
  res,       \* each goroutine's return value, once set
  calls,     \* the calls made so far
  pre,       \* history: file, Indexes and deleted as the writer in the critical section found them
  deleted,   \* history: keys deleted and not inserted since
  written,   \* history: per (field, value) pair, the keys of the records holding it, last written last
  seqRecs,   \* history: the Record Set the successful calls give when applied one after the other
  tx,        \* the Transaction in progress, if any
  faults     \* the file-system and codec failures so far

vars == <<file, Indexes, wHolder, readers, pc, op, loc, res, calls, pre, deleted,
          written, seqRecs, tx, faults>>

\* NewTable: the file holds an empty Records, LoadIndexes found nothing.
Init ==
  /\ file = Encoded(EmptyRecords)
  /\ Indexes = <<>>
  /\ wHolder = 0
  /\ readers = {}
  /\ pc = [p \in Procs |-> "idle"]
  /\ op = [p \in Procs |-> NoOp]
  /\ loc = [p \in Procs |-> None]
  /\ res = [p \in Procs |-> "none"]
  /\ calls = 0
  /\ pre = None
  /\ deleted = {}
  /\ written = <<>>
  /\ seqRecs = EmptyRecords
  /\ tx = None
  /\ faults = 0

\* -------------------------------------------------------------- Indexes
Bucket(idx, field) == IF field \in DOMAIN idx THEN idx[field] ELSE <<>>

\* if _, exists := t.Indexes[key]; !exists { make }; t.Indexes[key][val] = ptr
IndexSet(idx, field, val, ptr) ==
  [f \in DOMAIN idx \cup {field} |->
     IF f = field THEN MapPut(Bucket(idx, field), val, ptr) ELSE idx[f]]

\* if idxMap, found := t.Indexes[field]; found { delete(idxMap, val) }
IndexDelete(idx, field, val) ==
  IF field \in DOMAIN idx THEN [idx EXCEPT ![field] = MapDel(@, val)] ELSE idx

\* What the pointers stored during a loop show once the loop has ended.
Resolve(idx, fields) ==
  [f \in DOMAIN idx |-> [v \in DOMAIN idx[f] |->
     IF idx[f][v] = This THEN fields ELSE idx[f][v]]]

\* ------------------------------------------------- the handlers' bodies
\* Insert, lines 100-110: the loop over the caller's record.
RECURSIVE InsertLoop(_, _, _, _, _)
InsertLoop(order, i, record, fields, idx) ==
  IF i > Len(order) THEN [ok |-> TRUE, fields |-> fields, idx |-> idx]
  ELSE LET key == order[i]
           value == record[key]
       IN IF ~IsString(value)
          THEN [ok |-> FALSE, fields |-> fields, idx |-> idx]
          ELSE InsertLoop(order, i + 1, record, MapPut(fields, key, value),
                          IndexSet(idx, key, value, This))

\* Mutant: line 112 forgotten, the new record never joins allRecords.
InsertBodyNoStore(recs, idx, record, order) ==
  LET primaryKeyValue == SprintfV(record, PrimaryKey)
      r == InsertLoop(order, 1, record, <<>>, idx)
  IN IF primaryKeyValue \in DOMAIN recs
     THEN [err |-> "DuplicateKeyError", records |-> recs, idx |-> idx]
     ELSE IF ~r.ok
          THEN [err |-> "TypeError", records |-> recs, idx |-> Resolve(r.idx, r.fields)]
          ELSE [err |-> "nil", records |-> recs, idx |-> Resolve(r.idx, r.fields)]

\* Mutant: the loop of lines 100-110 runs before the duplicate check of line 97.
InsertBodyLoopFirst(recs, idx, record, order) ==
  LET primaryKeyValue == SprintfV(record, PrimaryKey)
      r == InsertLoop(order, 1, record, <<>>, idx)
  IN IF ~r.ok
     THEN [err |-> "TypeError", records |-> recs, idx |-> Resolve(r.idx, r.fields)]
     ELSE IF primaryKeyValue \in DOMAIN recs
          THEN [err |-> "DuplicateKeyError", records |-> recs,
                idx |-> Resolve(r.idx, r.fields)]
          ELSE [err |-> "nil", records |-> MapPut(recs, primaryKeyValue, r.fields),
                idx |-> Resolve(r.idx, r.fields)]

\* Insert, lines 95-114, on the Record Set read from the file: the error, the
\* Record Set handed to writeRecordsToFile, the Indexes left behind.
InsertBody(recs, idx, record, order) ==
  LET primaryKeyValue == SprintfV(record, PrimaryKey)
  IN IF primaryKeyValue \in DOMAIN recs
     THEN [err |-> "DuplicateKeyError", records |-> recs, idx |-> idx]
     ELSE LET r == InsertLoop(order, 1, record, <<>>, idx)
          IN IF ~r.ok
             THEN [err |-> "TypeError", records |-> recs, idx |-> Resolve(r.idx, r.fields)]
             ELSE [err |-> "nil", records |-> MapPut(recs, primaryKeyValue, r.fields),
                   idx |-> Resolve(r.idx, r.fields)]

\* Update, lines 144-160: the loop over the updates.
RECURSIVE UpdateLoop(_, _, _, _, _)
UpdateLoop(order, i, updates, fields, idx) ==
  IF i > Len(order) THEN [ok |-> TRUE, fields |-> fields, idx |-> idx]
  ELSE LET field == order[i]
           newValue == updates[field]
           idx1 == IF field \in DOMAIN fields
                   THEN IndexDelete(idx, field, fields[field]) ELSE idx
       IN IF ~IsString(newValue)
          THEN [ok |-> FALSE, fields |-> fields, idx |-> idx1]
          ELSE UpdateLoop(order, i + 1, updates, MapPut(fields, field, newValue),
                          IndexSet(idx1, field, newValue, This))

\* Mutant: the stale entry of lines 145-150 is never deleted.
RECURSIVE UpdateLoopKeepsOld(_, _, _, _, _)
UpdateLoopKeepsOld(order, i, updates, fields, idx) ==
  IF i > Len(order) THEN [ok |-> TRUE, fields |-> fields, idx |-> idx]
  ELSE IF ~IsString(updates[order[i]])
       THEN [ok |-> FALSE, fields |-> fields, idx |-> idx]
       ELSE UpdateLoopKeepsOld(order, i + 1, updates,
                               MapPut(fields, order[i], updates[order[i]]),
                               IndexSet(idx, order[i], updates[order[i]], This))

UpdateBodyKeepsOld(recs, idx, key, updates, order) ==
  IF key \notin DOMAIN recs
  THEN [err |-> "NotFoundError", records |-> recs, idx |-> idx]
  ELSE LET r == UpdateLoopKeepsOld(order, 1, updates, recs[key], idx)
       IN IF ~r.ok
          THEN [err |-> "TypeError", records |-> recs, idx |-> Resolve(r.idx, r.fields)]
          ELSE [err |-> "nil", records |-> [recs EXCEPT ![key] = r.fields],
                idx |-> Resolve(r.idx, r.fields)]

\* Update, lines 139-162.
UpdateBody(recs, idx, key, updates, order) ==
  IF key \notin DOMAIN recs
  THEN [err |-> "NotFoundError", records |-> recs, idx |-> idx]
  ELSE LET r == UpdateLoop(order, 1, updates, recs[key], idx)
       IN IF ~r.ok
          THEN [err |-> "TypeError", records |-> recs, idx |-> Resolve(r.idx, r.fields)]
          ELSE [err |-> "nil", records |-> [recs EXCEPT ![key] = r.fields],
                idx |-> Resolve(r.idx, r.fields)]

\* Mutant: the loop of lines 178-182 is missing.
DeleteBodyKeepsIndex(recs, idx, key) ==
  IF key \notin DOMAIN recs
  THEN [err |-> "NotFoundError", records |-> recs, idx |-> idx]
  ELSE [err |-> "nil", records |-> MapDel(recs, key), idx |-> idx]

\* Delete, lines 173-186.
DeleteBody(recs, idx, key) ==
  IF key \notin DOMAIN recs
  THEN [err |-> "NotFoundError", records |-> recs, idx |-> idx]
  ELSE [err |-> "nil", records |-> MapDel(recs, key),
        idx |-> [f \in DOMAIN idx |->
                   IF f \in DOMAIN recs[key] THEN MapDel(idx[f], recs[key][f]) ELSE idx[f]]]

\* SelectAll, lines 124-128: the records of the map, in no particular order.
SelectAllOut(recs) ==
  [r \in {recs[k] : k \in DOMAIN recs} |-> Cardinality({k \in DOMAIN recs : recs[k] = r})]

\* ------------------------------------------------- LoadIndexes and joins
\* LoadIndexes, lines 63-70: every record of the file, in the order the map
\* range picks, stored under each of its (field, value) pairs. Nothing is
\* removed from the Indexes found.
RECURSIVE LoadIndexesBody(_, _, _)
LoadIndexesBody(idx, recs, order) ==
  IF order = <<>> THEN idx
  ELSE LET record == recs[Head(order)]
       IN LoadIndexesBody(
            [f \in DOMAIN idx \cup DOMAIN record |->
               IF f \in DOMAIN record
               THEN MapPut(Bucket(idx, f), record[f], record)
               ELSE idx[f]],
            recs, Tail(order))

\* Mutant: a rebuild that keeps the entries it finds.
ResetAndLoadIndexesKeeps(idx, recs, order) == LoadIndexesBody(idx, recs, order)

\* ResetAndLoadIndexes: the Indexes are cleared, then rebuilt by LoadIndexes.
ResetAndLoadIndexesBody(idx, recs, order) == LoadIndexesBody(<<>>, recs, order)

JoinTypes == {"InnerJoin", "LeftJoin", "RightJoin", "FullOuterJoin"}

\* A nil *structpb.Value, a nil interface{}.
NilValue == "#nil"

\* rec.Fields[key]: nil when the record has no such field.
FieldOf(rec, key) == IF key \in DOMAIN rec THEN rec[key] ELSE NilValue

\* Equal: equality of two typed values.
Equal(v1, v2) == v1 = v2

\* mergeRecords, lines 84-95: a string or a number as it is, nil for the rest.
extractValue(v) == IF v \in Str \cup NonStr THEN v ELSE NilValue

MergeSide(prefix, rec) ==
  IF rec = None THEN <<>>
  ELSE [x \in {prefix \o k : k \in DOMAIN rec} |->
          extractValue(rec[CHOOSE k \in DOMAIN rec : prefix \o k = x])]

\* Mutant: the fields of rec2 are left out of the merged row.
mergeRecordsLeftOnly(rec1, rec2) == MergeSide("t1.", rec1)

\* mergeRecords, lines 81-112.
mergeRecords(rec1, rec2) == MergeSide("t1.", rec1) @@ MergeSide("t2.", rec2)

\* Mutant: the scan of lines 53-73 runs for every join type.
JoinRowsAlwaysRight(b1, b2, key1, key2, joinType) ==
  LET match(v1, v2) == Equal(FieldOf(b1[v1], key1), FieldOf(b2[v2], key2))
      count(x) ==
        Cardinality({pr \in (DOMAIN b1) \X (DOMAIN b2) :
                       match(pr[1], pr[2]) /\ mergeRecords(b1[pr[1]], b2[pr[2]]) = x})
        + Cardinality({v1 \in DOMAIN b1 :
                         /\ joinType \in {"LeftJoin", "FullOuterJoin"}
                         /\ ~(\E v2 \in DOMAIN b2 : match(v1, v2))
                         /\ mergeRecords(b1[v1], None) = x})
        + Cardinality({v2 \in DOMAIN b2 :
                         /\ ~(\E v1 \in DOMAIN b1 : match(v1, v2))
                         /\ mergeRecords(None, b2[v2]) = x})
      rows == {mergeRecords(b1[pr[1]], b2[pr[2]]) : pr \in (DOMAIN b1) \X (DOMAIN b2)}
                \cup {mergeRecords(b1[v1], None) : v1 \in DOMAIN b1}
                \cup {mergeRecords(None, b2[v2]) : v2 \in DOMAIN b2}
  IN [x \in {y \in rows : count(y) > 0} |-> count(x)]

\* JoinTables, lines 31-73, on the buckets t1.Indexes[key1] and
\* t2.Indexes[key2]: the rows appended to results, as a bag (the order is
\* that of the map ranges).
JoinRows(b1, b2, key1, key2, joinType) ==
  LET match(v1, v2) == Equal(FieldOf(b1[v1], key1), FieldOf(b2[v2], key2))
      count(x) ==
        Cardinality({pr \in (DOMAIN b1) \X (DOMAIN b2) :
                       match(pr[1], pr[2]) /\ mergeRecords(b1[pr[1]], b2[pr[2]]) = x})
        + Cardinality({v1 \in DOMAIN b1 :
                         /\ joinType \in {"LeftJoin", "FullOuterJoin"}
                         /\ ~(\E v2 \in DOMAIN b2 : match(v1, v2))
                         /\ mergeRecords(b1[v1], None) = x})
        + Cardinality({v2 \in DOMAIN b2 :
                         /\ joinType \in {"RightJoin", "FullOuterJoin"}
                         /\ ~(\E v1 \in DOMAIN b1 : match(v1, v2))
                         /\ mergeRecords(None, b2[v2]) = x})
      rows == {mergeRecords(b1[pr[1]], b2[pr[2]]) : pr \in (DOMAIN b1) \X (DOMAIN b2)}
                \cup {mergeRecords(b1[v1], None) : v1 \in DOMAIN b1}
                \cup {mergeRecords(None, b2[v2]) : v2 \in DOMAIN b2}
  IN [x \in {y \in rows : count(y) > 0} |-> count(x)]

\* The second table of a join: a table opened on an existing file of
\* well-formed records (NewTable runs LoadIndexes), on which one Insert may
\* since have failed.
OtherRecordSets ==
  UNION {{recs \in [K -> [FieldNames -> Str]] :
            \A k \in K : recs[k][PrimaryKey] = k} : K \in SUBSET Str}

OtherTables ==
  UNION {UNION {{[file |-> Encoded(recs), idx |-> LoadIndexesBody(<<>>, recs, o)],
                 [file |-> Encoded(recs),
                  idx |-> InsertBody(recs, LoadIndexesBody(<<>>, recs, o),
                                     [id |-> "b", f |-> "#7"], <<"id", "f">>).idx]} :
                  o \in Orders(DOMAIN recs)} : recs \in OtherRecordSets}

\* ------------------------------------------------------------ the lock
\* Mutants: a lock that does not wait.
CanEnterAlways(p) == TRUE
CanRLockAlways(p) == TRUE
CanLockAlways(p) == TRUE

\* sync.RWMutex.Lock: take w, which announces the writer to new readers.
CanLock(p) == wHolder = 0
\* ... then wait for the readers that hold the lock to leave.
CanEnter(p) == readers = {}
\* sync.RWMutex.RLock succeeds at once unless a writer holds or awaits the lock.
CanRLock(p) == wHolder = 0

InCritical(p) == pc[p] \in {"cs", "write", "trunc", "ret"}
InRead(p) == pc[p] \in {"rcs", "rret"}

\* ---------------------------------------------------------- Transaction
\* The record a pending operation will touch: the one stored under its key.
TouchedKey(o) == IF o.kind = "Insert" THEN SprintfV(o.record, PrimaryKey) ELSE o.key

\* The snapshot a Transaction takes on creation: a copy of every record the
\* pending operation will touch.
Snapshot(recs, o) ==
  [k \in {TouchedKey(o)} \cap DOMAIN recs |-> recs[k]]

\* Rollback: every snapshotted record is put back into the Record Set and
\* into the Indexes as captured; the Record Set is then written to the file.
RollbackBody(recs, idx, snapshot) ==
  LET held(f) == {snapshot[k][f] : k \in {j \in DOMAIN snapshot : f \in DOMAIN snapshot[j]}}
      fields == UNION {DOMAIN snapshot[k] : k \in DOMAIN snapshot}
  IN [err |-> "nil",
      records |-> [k \in DOMAIN recs \cup DOMAIN snapshot |->
                     IF k \in DOMAIN snapshot THEN snapshot[k] ELSE recs[k]],
      idx |-> [f \in DOMAIN idx \cup fields |->
                 [v \in DOMAIN Bucket(idx, f) \cup held(f) |->
                    IF v \in held(f)
                    THEN snapshot[CHOOSE k \in DOMAIN snapshot :
                                    f \in DOMAIN snapshot[k] /\ snapshot[k][f] = v]
                    ELSE idx[f][v]]]]

IsTxOp(p) == "tx" \in DOMAIN op[p]

\* The operations run through a Transaction: well-formed ones, every value a
\* string and an inserted record carrying its primary key.
StringRecords == {r \in InputRecords : \A f \in DOMAIN r : IsString(r[f])}

TxOps ==
  {[kind |-> "Insert", tx |-> TRUE, record |-> r] :
     r \in {x \in StringRecords : PrimaryKey \in DOMAIN x}}
    \cup {[kind |-> "Update", tx |-> TRUE, key |-> k, updates |-> u] :
            k \in InputKeys, u \in StringRecords}
    \cup {[kind |-> "Delete", tx |-> TRUE, key |-> k] : k \in InputKeys}

\* ------------------------------------------------------------- history
\* The calls in the order of their writes: what a call that has written its
\* Record Set gives when applied to the Record Set of the calls before it.
SeqApply(recs, o, snapshot) ==
  IF o.kind = "Insert"
  THEN InsertBody(recs, <<>>, o.record,
                  CHOOSE s \in Orders(DOMAIN o.record) : TRUE).records
  ELSE IF o.kind = "Update"
       THEN UpdateBody(recs, <<>>, o.key, o.updates,
                       CHOOSE s \in Orders(DOMAIN o.updates) : TRUE).records
       ELSE IF o.kind = "Delete"
            THEN DeleteBody(recs, <<>>, o.key).records
            ELSE RollbackBody(recs, <<>>, snapshot).records

Drop(s, k) == SelectSeq(s, LAMBDA x : x # k)

WGet(w, pr) == IF pr \in DOMAIN w THEN w[pr] ELSE <<>>

Norm(w) == [pr \in {q \in DOMAIN w : w[q] # <<>>} |-> w[pr]]

\* The record under key has had the (field, value) pairs of fields written:
\* it is the last writer of each of them and no longer holds the values
\* these fields had.
WWrite(w, key, fields) ==
  Norm([pr \in DOMAIN w \cup {<<f, fields[f]>> : f \in DOMAIN fields} |->
          IF pr[1] \in DOMAIN fields
          THEN IF pr[2] = fields[pr[1]]
               THEN Append(Drop(WGet(w, pr), key), key)
               ELSE Drop(w[pr], key)
          ELSE w[pr]])

WDelete(w, key) == Norm([pr \in DOMAIN w |-> Drop(w[pr], key)])

WrittenAfter(w, o, snapshot) ==
  IF o.kind = "Insert" THEN WWrite(w, SprintfV(o.record, PrimaryKey), o.record)
  ELSE IF o.kind = "Update" THEN WWrite(w, o.key, o.updates)
  ELSE IF o.kind = "Delete" THEN WDelete(w, o.key)
  ELSE IF DOMAIN snapshot = {} THEN w
       ELSE LET k == CHOOSE j \in DOMAIN snapshot : TRUE
            IN WWrite(WDelete(w, k), k, snapshot[k])

\* -------------------------------------------------------------- actions
\* A call of Insert, Update or Delete. The arguments are the caller's own: no
\* other goroutine sees them, and the model draws them where the handler
\* first reads them.
CallWrite(p, kind) ==
  /\ pc[p] = "idle"
  /\ calls < MaxCalls
  /\ calls' = calls + 1
  /\ op' = [op EXCEPT ![p] = [kind |-> kind]]
  /\ pc' = [pc EXCEPT ![p] = "lock"]
  /\ UNCHANGED <<file, Indexes, wHolder, readers, loc, res, pre, deleted, written, seqRecs, tx, faults>>

CallInsert(p) == CallWrite(p, "Insert")

CallUpdate(p) == CallWrite(p, "Update")

CallDelete(p) == CallWrite(p, "Delete")

\* t.Lock()
Lock(p) ==
  /\ pc[p] = "lock"
  /\ CanLock(p)
  /\ wHolder' = p
  /\ pc' = [pc EXCEPT ![p] = IF CanEnter(p) THEN "cs" ELSE "drain"]
  /\ UNCHANGED <<file, Indexes, readers, op, loc, res, calls, pre, deleted, written, seqRecs, tx, faults>>

LockEnter(p) ==
  /\ pc[p] = "drain"
  /\ CanEnter(p)
  /\ pc' = [pc EXCEPT ![p] = "cs"]
  /\ UNCHANGED <<file, Indexes, wHolder, readers, op, loc, res, calls, pre, deleted, written, seqRecs, tx, faults>>

\* readRecordsFromFile, then the handler's work in memory, up to the call of
\* writeRecordsToFile or the error return.
Apply(p, o, r) ==
  /\ op' = [op EXCEPT ![p] = o]
  /\ pre' = [file |-> file, idx |-> Indexes, deleted |-> deleted]
  /\ Indexes' = r.idx
  /\ IF r.err = "nil"
     THEN /\ loc' = [loc EXCEPT ![p] = r.records]
          /\ pc' = [pc EXCEPT ![p] = "write"]
          /\ UNCHANGED res
     ELSE /\ res' = [res EXCEPT ![p] = r.err]
          /\ pc' = [pc EXCEPT ![p] = "ret"]
                  /\ UNCHANGED loc
  /\ UNCHANGED <<file, wHolder, readers, calls, deleted, written, seqRecs, tx, faults>>

InsertApply(p, Records) ==
  /\ pc[p] = "cs"
  /\ op[p] = [kind |-> "Insert"]
  /\ \E record \in Records : \E order \in Orders(DOMAIN record) :
       Apply(p, [kind |-> "Insert", record |-> record],
             InsertBody(readRecordsFromFile(file), Indexes, record, order))

UpdateApply(p, Keys, Records) ==
  /\ pc[p] = "cs"
  /\ op[p] = [kind |-> "Update"]
  /\ \E key \in Keys, updates \in Records : \E order \in Orders(DOMAIN updates) :
       Apply(p, [kind |-> "Update", key |-> key, updates |-> updates],
             UpdateBody(readRecordsFromFile(file), Indexes, key, updates, order))

DeleteApply(p, Keys) ==
  /\ pc[p] = "cs"
  /\ op[p] = [kind |-> "Delete"]
  /\ \E key \in Keys :
       Apply(p, [kind |-> "Delete", key |-> key],
             DeleteBody(readRecordsFromFile(file), Indexes, key))

\* A Transaction is created for one operation and snapshots what it will touch.
TxStart(p) ==
  /\ pc[p] = "idle"
  /\ tx = None
  /\ calls < MaxCalls
  /\ \E o \in TxOps :
       tx' = [state |-> "Started", op |-> o,
              snapshot |-> Snapshot(readRecordsFromFile(file), o),
              before |-> [file |-> file, idx |-> Indexes]]
  /\ UNCHANGED <<file, Indexes, wHolder, readers, pc, op, loc, res, calls, pre, deleted, written, seqRecs, faults>>

\* Commit: the call of the Table's own operation.
TxCommit(p) ==
  /\ pc[p] = "idle"
  /\ tx # None
  /\ tx.state = "Started"
  /\ calls < MaxCalls
  /\ calls' = calls + 1
  /\ op' = [op EXCEPT ![p] = tx.op]
  /\ pc' = [pc EXCEPT ![p] = "lock"]
  /\ tx' = [tx EXCEPT !.state = "Committing"]
  /\ UNCHANGED <<file, Indexes, wHolder, readers, loc, res, pre, deleted, written, seqRecs, faults>>

TxCommitApply(p) ==
  /\ pc[p] = "cs"
  /\ IsTxOp(p)
  /\ \/ /\ op[p].kind = "Insert"
        /\ \E order \in Orders(DOMAIN op[p].record) :
             Apply(p, op[p], InsertBody(readRecordsFromFile(file), Indexes, op[p].record, order))
     \/ /\ op[p].kind = "Update"
        /\ \E order \in Orders(DOMAIN op[p].updates) :
             Apply(p, op[p], UpdateBody(readRecordsFromFile(file), Indexes,
                                        op[p].key, op[p].updates, order))
     \/ /\ op[p].kind = "Delete"
        /\ Apply(p, op[p], DeleteBody(readRecordsFromFile(file), Indexes, op[p].key))

\* Rollback, called once on a Transaction whose operation has been applied.
TxRollback(p) ==
  /\ pc[p] = "idle"
  /\ tx # None
  /\ tx.state = "Committed"
  /\ calls < MaxCalls
  /\ calls' = calls + 1
  /\ op' = [op EXCEPT ![p] = [kind |-> "Rollback", tx |-> TRUE]]
  /\ pc' = [pc EXCEPT ![p] = "lock"]
  /\ tx' = [tx EXCEPT !.state = "RollingBack"]
  /\ UNCHANGED <<file, Indexes, wHolder, readers, loc, res, pre, deleted, written, seqRecs, faults>>

TxRollbackApply(p) ==
  /\ pc[p] = "cs"
  /\ op[p].kind = "Rollback"
  /\ Apply(p, op[p], RollbackBody(readRecordsFromFile(file), Indexes, tx.snapshot))

\* readRecordsFromFile fails (os.ReadFile, Decrypt or proto.Unmarshal): the
\* handler returns the error before it has touched anything.
ReadFail(p) ==
  /\ pc[p] = "cs"
  /\ faults < MaxFaults
  /\ faults' = faults + 1
  /\ pre' = [file |-> file, idx |-> Indexes, deleted |-> deleted]
  /\ res' = [res EXCEPT ![p] = "IOError"]
  /\ pc' = [pc EXCEPT ![p] = "ret"]
  /\ UNCHANGED <<file, Indexes, wHolder, readers, op, loc, calls, deleted, written, seqRecs, tx>>

\* writeRecordsToFile fails before the file is opened (lines 216-228): the
\* file keeps its content, the Indexes keep the handler's changes.
OpenFail(p) ==
  /\ pc[p] = "write"
  /\ faults < MaxFaults
  /\ faults' = faults + 1
  /\ res' = [res EXCEPT ![p] = "IOError"]
  /\ pc' = [pc EXCEPT ![p] = "ret"]
  /\ UNCHANGED <<file, Indexes, wHolder, readers, op, loc, calls, pre, deleted, written, seqRecs, tx>>

\* file.Write fails (lines 231-234): the file stays truncated.
WriteFail(p) ==
  /\ pc[p] = "trunc"
  /\ faults < MaxFaults
  /\ faults' = faults + 1
  /\ res' = [res EXCEPT ![p] = "IOError"]
  /\ pc' = [pc EXCEPT ![p] = "ret"]
  /\ seqRecs' = None
  /\ UNCHANGED <<file, Indexes, wHolder, readers, op, loc, calls, pre, deleted, written, tx>>

\* writeRecordsToFile, line 225: os.OpenFile with O_TRUNC empties the file.
OpenTrunc(p) ==
  /\ pc[p] = "write"
  /\ file' = ZeroBytes
  /\ pc' = [pc EXCEPT ![p] = "trunc"]
  /\ UNCHANGED <<Indexes, wHolder, readers, op, loc, res, calls, pre, deleted, written, seqRecs, tx, faults>>

\* writeRecordsToFile, line 231: file.Write of the encrypted Records.
WriteBytes(p) ==
  /\ pc[p] = "trunc"
  /\ file' = Encoded(loc[p])
  /\ res' = [res EXCEPT ![p] = "nil"]
  /\ pc' = [pc EXCEPT ![p] = "ret"]
  /\ deleted' = IF op[p].kind = "Delete" THEN deleted \cup {op[p].key}
                ELSE IF op[p].kind = "Insert"
                     THEN deleted \ {SprintfV(op[p].record, PrimaryKey)}
                     ELSE IF op[p].kind = "Rollback"
                          THEN deleted \ DOMAIN tx.snapshot
                          ELSE deleted
  /\ written' = WrittenAfter(written, op[p], IF IsTxOp(p) THEN tx.snapshot ELSE <<>>)
  /\ seqRecs' = IF seqRecs = None THEN None
                ELSE SeqApply(seqRecs, op[p], IF IsTxOp(p) THEN tx.snapshot ELSE <<>>)
  /\ UNCHANGED <<Indexes, wHolder, readers, op, loc, calls, pre, tx, faults>>

\* Mutant: a return that leaves the lock held.
UnlockKeeps(p) ==
  /\ pc[p] = "ret"
  /\ pc' = [pc EXCEPT ![p] = "idle"]
  /\ op' = [op EXCEPT ![p] = NoOp]
  /\ loc' = [loc EXCEPT ![p] = None]
  /\ res' = [res EXCEPT ![p] = "none"]
  /\ pre' = None
  /\ UNCHANGED <<file, Indexes, wHolder, readers, calls, deleted, written, seqRecs, tx, faults>>

\* defer t.Unlock(), and the return: the readers that queued behind the
\* writer now hold the lock.
Unlock(p) ==
  /\ pc[p] = "ret"
  /\ wHolder' = 0
  /\ readers' = readers \cup {q \in Procs : pc[q] = "rwait"}
  /\ pc' = [q \in Procs |-> IF q = p THEN "idle"
                            ELSE IF pc[q] = "rwait" THEN "rcs" ELSE pc[q]]
  /\ op' = [op EXCEPT ![p] = NoOp]
  /\ loc' = [loc EXCEPT ![p] = None]
  /\ res' = [res EXCEPT ![p] = "none"]
  /\ pre' = None
  /\ tx' = IF ~IsTxOp(p) THEN tx
           ELSE IF op[p].kind # "Rollback" /\ res[p] = "nil"
                THEN [tx EXCEPT !.state = "Committed"]
                ELSE None
  /\ UNCHANGED <<file, Indexes, calls, deleted, written, seqRecs, faults>>

\* SelectAll: t.RLock()
CallSelectAll(p) ==
  /\ pc[p] = "idle"
  /\ calls < MaxCalls
  /\ calls' = calls + 1
  /\ op' = [op EXCEPT ![p] = [kind |-> "SelectAll"]]
  /\ IF CanRLock(p)
     THEN /\ readers' = readers \cup {p}
          /\ pc' = [pc EXCEPT ![p] = "rcs"]
     ELSE /\ pc' = [pc EXCEPT ![p] = "rwait"]
          /\ UNCHANGED readers
  /\ UNCHANGED <<file, Indexes, wHolder, loc, res, pre, deleted, written, seqRecs, tx, faults>>

\* SelectAll, lines 120-128.
SelectAllRead(p) ==
  /\ pc[p] = "rcs"
  /\ loc' = [loc EXCEPT ![p] = [raw |-> file, out |-> SelectAllOut(readRecordsFromFile(file))]]
  /\ res' = [res EXCEPT ![p] = "nil"]
  /\ pc' = [pc EXCEPT ![p] = "rret"]
  /\ UNCHANGED <<file, Indexes, wHolder, readers, op, calls, pre, deleted, written, seqRecs, tx, faults>>

\* SelectAll, lines 120-123: readRecordsFromFile fails.
SelectAllReadFail(p) ==
  /\ pc[p] = "rcs"
  /\ faults < MaxFaults
  /\ faults' = faults + 1
  /\ res' = [res EXCEPT ![p] = "IOError"]
  /\ pc' = [pc EXCEPT ![p] = "rret"]
  /\ UNCHANGED <<file, Indexes, wHolder, readers, op, loc, calls, pre, deleted, written, seqRecs, tx>>

\* defer t.RUnlock(), and the return.
RUnlock(p) ==
  /\ pc[p] = "rret"
  /\ readers' = readers \ {p}
  /\ pc' = [pc EXCEPT ![p] = "idle"]
  /\ op' = [op EXCEPT ![p] = NoOp]
  /\ loc' = [loc EXCEPT ![p] = None]
  /\ res' = [res EXCEPT ![p] = "none"]
  /\ UNCHANGED <<file, Indexes, wHolder, calls, pre, deleted, written, seqRecs, tx, faults>>

\* LoadIndexes takes no lock: the call, its read of the file, its writes to
\* the Indexes, its return.
CallLoadIndexes(p) ==
  /\ pc[p] = "idle"
  /\ calls < MaxCalls
  /\ calls' = calls + 1
  /\ op' = [op EXCEPT ![p] = [kind |-> "LoadIndexes"]]
  /\ pc' = [pc EXCEPT ![p] = "lread"]
  /\ UNCHANGED <<file, Indexes, wHolder, readers, loc, res, pre, deleted, written, seqRecs, tx, faults>>

\* LoadIndexes, line 58.
LoadIndexesRead(p) ==
  /\ pc[p] = "lread"
  /\ loc' = [loc EXCEPT ![p] = readRecordsFromFile(file)]
  /\ pc' = [pc EXCEPT ![p] = "lwrite"]
  /\ UNCHANGED <<file, Indexes, wHolder, readers, op, res, calls, pre, deleted, written, seqRecs, tx, faults>>

\* LoadIndexes, lines 59-61: readRecordsFromFile fails.
LoadIndexesReadFail(p) ==
  /\ pc[p] = "lread"
  /\ faults < MaxFaults
  /\ faults' = faults + 1
  /\ res' = [res EXCEPT ![p] = "IOError"]
  /\ pc' = [pc EXCEPT ![p] = "lret"]
  /\ UNCHANGED <<file, Indexes, wHolder, readers, op, loc, calls, pre, deleted, written, seqRecs, tx>>

\* LoadIndexes, lines 63-71.
LoadIndexesWrite(p) ==
  /\ pc[p] = "lwrite"
  /\ \E order \in Orders(DOMAIN loc[p]) :
       Indexes' = LoadIndexesBody(Indexes, loc[p], order)
  /\ res' = [res EXCEPT ![p] = "nil"]
  /\ pc' = [pc EXCEPT ![p] = "lret"]
  /\ UNCHANGED <<file, wHolder, readers, op, loc, calls, pre, deleted, written, seqRecs, tx, faults>>

LoadIndexesReturn(p) ==
  /\ pc[p] = "lret"
  /\ pc' = [pc EXCEPT ![p] = "idle"]
  /\ op' = [op EXCEPT ![p] = NoOp]
  /\ loc' = [loc EXCEPT ![p] = None]
  /\ res' = [res EXCEPT ![p] = "none"]
  /\ UNCHANGED <<file, Indexes, wHolder, readers, calls, pre, deleted, written, seqRecs, tx, faults>>

\* JoinTables(t1, t2, key1, key2, joinType), t1 being this table and t2 a
\* second one.
CallJoinTables(p) ==
  /\ pc[p] = "idle"
  /\ calls < MaxCalls
  /\ calls' = calls + 1
  /\ op' = [op EXCEPT ![p] = [kind |-> "JoinTables"]]
  /\ pc' = [pc EXCEPT ![p] = "join"]
  /\ UNCHANGED <<file, Indexes, wHolder, readers, loc, res, pre, deleted, written, seqRecs, tx, faults>>

\* JoinTables, lines 22-75: both tables rebuild their Indexes, then the scans.
JoinTablesApply(p) ==
  /\ pc[p] = "join"
  /\ \E t2 \in OtherTables, key1 \in FieldNames, key2 \in FieldNames, joinType \in JoinTypes :
     \E o1 \in Orders(DOMAIN readRecordsFromFile(file)),
        o2 \in Orders(DOMAIN readRecordsFromFile(t2.file)) :
       LET idx1 == ResetAndLoadIndexesBody(Indexes, readRecordsFromFile(file), o1)
           idx2 == ResetAndLoadIndexesBody(t2.idx, readRecordsFromFile(t2.file), o2)
       IN /\ Indexes' = idx1
          /\ op' = [op EXCEPT ![p] = [kind |-> "JoinTables", t2 |-> t2, key1 |-> key1,
                                      key2 |-> key2, joinType |-> joinType]]
          /\ loc' = [loc EXCEPT ![p] =
                       [t2 |-> [file |-> t2.file, idx |-> idx2],
                        results |-> JoinRows(Bucket(idx1, key1), Bucket(idx2, key2),
                                             key1, key2, joinType)]]
  /\ pre' = [file |-> file, idx |-> Indexes, deleted |-> deleted]
  /\ res' = [res EXCEPT ![p] = "nil"]
  /\ pc' = [pc EXCEPT ![p] = "jret"]
  /\ UNCHANGED <<file, wHolder, readers, calls, deleted, written, seqRecs, tx, faults>>

\* JoinTables, lines 24-29: a rebuild fails, the first table's (nothing has
\* changed) or the second's (the first table's Indexes are rebuilt).
JoinTablesFail(p) ==
  /\ pc[p] = "join"
  /\ faults < MaxFaults
  /\ faults' = faults + 1
  /\ \E t2 \in OtherTables :
       /\ op' = [op EXCEPT ![p] = [kind |-> "JoinTables", t2 |-> t2]]
       /\ loc' = [loc EXCEPT ![p] = [t2 |-> t2]]
  /\ \/ UNCHANGED Indexes
     \/ \E o1 \in Orders(DOMAIN readRecordsFromFile(file)) :
          Indexes' = ResetAndLoadIndexesBody(Indexes, readRecordsFromFile(file), o1)
  /\ pre' = [file |-> file, idx |-> Indexes, deleted |-> deleted]
  /\ res' = [res EXCEPT ![p] = "IOError"]
  /\ pc' = [pc EXCEPT ![p] = "jret"]
  /\ UNCHANGED <<file, wHolder, readers, calls, deleted, written, seqRecs, tx>>

JoinTablesReturn(p) ==
  /\ pc[p] = "jret"
  /\ pc' = [pc EXCEPT ![p] = "idle"]
  /\ op' = [op EXCEPT ![p] = NoOp]
  /\ loc' = [loc EXCEPT ![p] = None]
  /\ res' = [res EXCEPT ![p] = "none"]
  /\ pre' = None
  /\ UNCHANGED <<file, Indexes, wHolder, readers, calls, deleted, written, seqRecs, tx, faults>>

\* Several goroutines calling the Table's methods.
Next ==
  \E p \in Procs :
    \/ CallInsert(p)
    \/ CallUpdate(p)
    \/ CallDelete(p)
    \/ CallSelectAll(p)
    \/ Lock(p)
    \/ LockEnter(p)
    \/ InsertApply(p, ConcRecords)
    \/ UpdateApply(p, ConcKeys, ConcUpdates)
    \/ DeleteApply(p, ConcKeys)
    \/ OpenTrunc(p)
    \/ WriteBytes(p)
    \/ ReadFail(p)
    \/ OpenFail(p)
    \/ WriteFail(p)
    \/ Unlock(p)
    \/ SelectAllRead(p)
    \/ SelectAllReadFail(p)
    \/ RUnlock(p)

Spec == Init /\ [][Next]_vars

\* The arguments drawn in the runs under fair scheduling: enough to take every
\* return path of the four operations.
FairRecords == {[id |-> "a", f |-> "a"], [id |-> "a", f |-> "#7"]}
FairUpdates == {[f |-> "b"], [f |-> "#7"]}
FairKeys == {"a", "b"}

\* The steps of one goroutine, and the goroutines under the Go scheduler,
\* which runs every goroutine that stays runnable.
Step(p) ==
  \/ CallInsert(p)
  \/ CallUpdate(p)
  \/ CallDelete(p)
  \/ CallSelectAll(p)
  \/ Lock(p)
  \/ LockEnter(p)
  \/ InsertApply(p, FairRecords)
  \/ UpdateApply(p, FairKeys, FairUpdates)
  \/ DeleteApply(p, FairKeys)
  \/ OpenTrunc(p)
  \/ WriteBytes(p)
  \/ ReadFail(p)
  \/ OpenFail(p)
  \/ WriteFail(p)
  \/ Unlock(p)
  \/ SelectAllRead(p)
  \/ SelectAllReadFail(p)
  \/ RUnlock(p)

FairNext == \E p \in Procs : Step(p)

SpecFair == Init /\ [][FairNext]_vars /\ \A p \in Procs : WF_vars(Step(p))

\* One goroutine calling the Table's methods one after the other, with every
\* argument a caller can pass.
SeqNext ==
  \E p \in {1} :
    \/ CallInsert(p)
    \/ CallUpdate(p)
    \/ CallDelete(p)
    \/ CallSelectAll(p)
    \/ Lock(p)
    \/ InsertApply(p, InputRecords)
    \/ UpdateApply(p, InputKeys, InputRecords)
    \/ DeleteApply(p, InputKeys)
    \/ OpenTrunc(p)
    \/ WriteBytes(p)
    \/ ReadFail(p)
    \/ OpenFail(p)
    \/ WriteFail(p)
    \/ Unlock(p)
    \/ SelectAllRead(p)
    \/ SelectAllReadFail(p)
    \/ RUnlock(p)

SpecSeq == Init /\ [][SeqNext]_vars

\* The runs of one goroutine in which every call succeeds: the steps that set
\* no error.
NextOk ==
  \E p \in {1} :
    /\ \/ CallInsert(p)
       \/ CallUpdate(p)
       \/ CallDelete(p)
       \/ CallSelectAll(p)
       \/ Lock(p)
       \/ InsertApply(p, InputRecords)
       \/ UpdateApply(p, InputKeys, InputRecords)
       \/ DeleteApply(p, InputKeys)
       \/ OpenTrunc(p)
       \/ WriteBytes(p)
       \/ Unlock(p)
       \/ SelectAllRead(p)
       \/ RUnlock(p)
    /\ res'[p] \in {"none", "nil"}

SpecOk == Init /\ [][NextOk]_vars

\* One goroutine using the table directly and through Transactions, one
\* operation at a time.
TxNext ==
  \E p \in {1} :
    \/ tx = None /\ CallInsert(p)
    \/ tx = None /\ CallUpdate(p)
    \/ tx = None /\ CallDelete(p)
    \/ TxStart(p)
    \/ TxCommit(p)
    \/ TxRollback(p)
    \/ Lock(p)
    \/ InsertApply(p, InputRecords)
    \/ UpdateApply(p, InputKeys, InputRecords)
    \/ DeleteApply(p, InputKeys)
    \/ TxCommitApply(p)
    \/ TxRollbackApply(p)
    \/ OpenTrunc(p)
    \/ WriteBytes(p)
    \/ Unlock(p)

SpecTx == Init /\ [][TxNext]_vars

\* One goroutine calling the Table's methods, LoadIndexes among them.
IdxNext ==
  \E p \in {1} :
    \/ CallInsert(p)
    \/ CallUpdate(p)
    \/ CallDelete(p)
    \/ CallLoadIndexes(p)
    \/ Lock(p)
    \/ InsertApply(p, InputRecords)
    \/ UpdateApply(p, InputKeys, InputRecords)
    \/ DeleteApply(p, InputKeys)
    \/ OpenTrunc(p)
    \/ WriteBytes(p)
    \/ ReadFail(p)
    \/ OpenFail(p)
    \/ WriteFail(p)
    \/ Unlock(p)
    \/ LoadIndexesRead(p)
    \/ LoadIndexesReadFail(p)
    \/ LoadIndexesWrite(p)
    \/ LoadIndexesReturn(p)

SpecIdx == Init /\ [][IdxNext]_vars

\* The same, in the runs where every call succeeds.
IdxNextOk ==
  \E p \in {1} :
    /\ \/ CallInsert(p)
       \/ CallUpdate(p)
       \/ CallDelete(p)
       \/ CallLoadIndexes(p)
       \/ Lock(p)
       \/ InsertApply(p, InputRecords)
       \/ UpdateApply(p, InputKeys, InputRecords)
       \/ DeleteApply(p, InputKeys)
       \/ OpenTrunc(p)
       \/ WriteBytes(p)
       \/ Unlock(p)
       \/ LoadIndexesRead(p)
       \/ LoadIndexesWrite(p)
       \/ LoadIndexesReturn(p)
    /\ res'[p] \in {"none", "nil"}

SpecIdxOk == Init /\ [][IdxNextOk]_vars

\* Several goroutines calling the Table's methods, LoadIndexes among them.
LoadNext ==
  \E p \in Procs :
    \/ CallInsert(p)
    \/ CallUpdate(p)
    \/ CallDelete(p)
    \/ CallSelectAll(p)
    \/ CallLoadIndexes(p)
    \/ Lock(p)
    \/ LockEnter(p)
    \/ InsertApply(p, ConcRecords)
    \/ UpdateApply(p, ConcKeys, ConcUpdates)
    \/ DeleteApply(p, ConcKeys)
    \/ OpenTrunc(p)
    \/ WriteBytes(p)
    \/ ReadFail(p)
    \/ OpenFail(p)
    \/ WriteFail(p)
    \/ Unlock(p)
    \/ SelectAllRead(p)
    \/ SelectAllReadFail(p)
    \/ RUnlock(p)
    \/ LoadIndexesRead(p)
    \/ LoadIndexesReadFail(p)
    \/ LoadIndexesWrite(p)
    \/ LoadIndexesReturn(p)

SpecLoad == Init /\ [][LoadNext]_vars

\* One goroutine that fills this table with Insert and joins it with a
\* second table.
JoinNext ==
  \E p \in {1} :
    \/ CallInsert(p)
    \/ Lock(p)
    \/ InsertApply(p, ConcRecords)
    \/ OpenTrunc(p)
    \/ WriteBytes(p)
    \/ Unlock(p)
    \/ CallJoinTables(p)
    \/ JoinTablesApply(p)
    \/ JoinTablesFail(p)
    \/ JoinTablesReturn(p)

SpecJoin == Init /\ [][JoinNext]_vars

\* ---------------------------------------------------------------- claims
\* The Record Set a writer found when it entered (valid while it is inside).
PreRecs == readRecordsFromFile(pre.file)
NowRecs == readRecordsFromFile(file)

\* A call of the kind has read the file and is about to return.
Returned(p, kind) == pc[p] = "ret" /\ op[p].kind = kind /\ op[p] # [kind |-> kind]

Carries(r, v) == PrimaryKey \in DOMAIN r /\ r[PrimaryKey] = v

\* C1: an Insert of an all-string record whose primary-key value no record of
\* the table carries yet, once it has returned nil, makes SelectAll return
\* exactly one record with that primary-key value, equal field for field to
\* the inserted record.
C1_InsertThenSelectAll ==
  \A p \in Procs :
    (/\ Returned(p, "Insert")
     /\ res[p] = "nil"
     /\ PrimaryKey \in DOMAIN op[p].record
     /\ \A k \in DOMAIN PreRecs : ~Carries(PreRecs[k], op[p].record[PrimaryKey]))
    => LET out == SelectAllOut(NowRecs)
       IN /\ {r \in DOMAIN out : Carries(r, op[p].record[PrimaryKey])} = {op[p].record}
          /\ out[op[p].record] = 1

C1_Witness ==
  \E p \in Procs :
    /\ Returned(p, "Insert")
    /\ res[p] = "nil"
    /\ DOMAIN op[p].record = FieldNames
    /\ \A k \in DOMAIN PreRecs : ~Carries(PreRecs[k], op[p].record[PrimaryKey])
    /\ Cardinality(DOMAIN NowRecs) = 2

\* C2: an Insert whose primary-key value is already a key of the Record Set
\* returns DuplicateKeyError and leaves the file and the Indexes as they were.
C2_DuplicateInsertRejected ==
  \A p \in Procs :
    (Returned(p, "Insert") /\ SprintfV(op[p].record, PrimaryKey) \in DOMAIN PreRecs)
    => /\ res[p] = "DuplicateKeyError"
       /\ file = pre.file
       /\ Indexes = pre.idx

C2_Witness ==
  \E p \in Procs :
    /\ Returned(p, "Insert")
    /\ SprintfV(op[p].record, PrimaryKey) \in DOMAIN PreRecs
    /\ \E f \in DOMAIN op[p].record :
         op[p].record[f] \in Str /\ op[p].record[f] \notin DOMAIN Bucket(pre.idx, f)

\* C3: Update of an absent key returns NotFoundError; a successful Update
\* replaces exactly the fields named in updates, and for every field whose
\* value changed Indexes[field] has lost the old value and holds the new one.
C3_Update ==
  \A p \in Procs :
    Returned(p, "Update") =>
      LET key == op[p].key
          updates == op[p].updates
      IN /\ key \notin DOMAIN PreRecs => res[p] = "NotFoundError"
         /\ res[p] = "nil" =>
              /\ key \in DOMAIN PreRecs
              /\ DOMAIN NowRecs = DOMAIN PreRecs
              /\ \A k \in DOMAIN PreRecs \ {key} : NowRecs[k] = PreRecs[k]
              /\ DOMAIN NowRecs[key] = DOMAIN PreRecs[key] \cup DOMAIN updates
              /\ \A f \in DOMAIN NowRecs[key] :
                   NowRecs[key][f] = IF f \in DOMAIN updates THEN updates[f]
                                     ELSE PreRecs[key][f]
              /\ \A f \in DOMAIN updates :
                   (f \notin DOMAIN PreRecs[key] \/ PreRecs[key][f] # updates[f]) =>
                     /\ updates[f] \in DOMAIN Bucket(Indexes, f)
                     /\ f \in DOMAIN PreRecs[key] =>
                          PreRecs[key][f] \notin DOMAIN Bucket(Indexes, f)

C3_Witness ==
  \E p \in Procs :
    /\ Returned(p, "Update")
    /\ res[p] = "nil"
    /\ \E f \in DOMAIN op[p].updates \cap DOMAIN PreRecs[op[p].key] :
         /\ PreRecs[op[p].key][f] # op[p].updates[f]
         /\ PreRecs[op[p].key][f] \in DOMAIN Bucket(pre.idx, f)
    /\ DOMAIN PreRecs[op[p].key] \ DOMAIN op[p].updates # {}

\* C4: a successful Delete takes the record out of what SelectAll returns and
\* leaves no Indexes entry for any (field, value) of it; a Delete of a key that
\* was deleted and not inserted since returns NotFoundError and changes nothing.
C4_Delete ==
  \A p \in Procs :
    Returned(p, "Delete") =>
      LET key == op[p].key
      IN /\ key \in DOMAIN PreRecs => res[p] \in {"nil", "IOError"}
         /\ res[p] = "nil" =>
              /\ key \in DOMAIN PreRecs
              /\ NowRecs = MapDel(PreRecs, key)
              /\ SelectAllOut(PreRecs) = SelectAllOut(NowRecs) (+) SetToBag({PreRecs[key]})
              /\ \A f \in DOMAIN PreRecs[key] :
                   PreRecs[key][f] \notin DOMAIN Bucket(Indexes, f)
         /\ key \in pre.deleted =>
              /\ res[p] = "NotFoundError"
              /\ file = pre.file
              /\ Indexes = pre.idx

C4_Witness ==
  \E p \in Procs :
    /\ Returned(p, "Delete")
    /\ op[p].key \in pre.deleted
    /\ res[p] = "NotFoundError"

C4_WitnessFirst ==
  \E p \in Procs :
    /\ Returned(p, "Delete")
    /\ res[p] = "nil"
    /\ \E f \in DOMAIN PreRecs[op[p].key] :
         PreRecs[op[p].key][f] \in DOMAIN Bucket(pre.idx, f)

\* C5: every key of the persisted Record Set equals the value its record
\* stores under the primary-key field.
C5_KeyEqualsPrimaryKeyField ==
  \A k \in DOMAIN NowRecs : Carries(NowRecs[k], k)

\* C6: between calls, in a run whose calls all succeed, every (field, value)
\* pair of every record of the Record Set has an Indexes entry, and the entry
\* shows a record holding that pair.
C6_IndexComplete ==
  (\A p \in Procs : ~InCritical(p)) =>
    \A k \in DOMAIN NowRecs : \A f \in DOMAIN NowRecs[k] :
      /\ NowRecs[k][f] \in DOMAIN Bucket(Indexes, f)
      /\ f \in DOMAIN Bucket(Indexes, f)[NowRecs[k][f]]
      /\ Bucket(Indexes, f)[NowRecs[k][f]][f] = NowRecs[k][f]

\* C7: at most one of Insert, Update, Delete is inside the critical section,
\* and no SelectAll is inside its read section while one is.
C7_SingleWriterMultiReader ==
  /\ Cardinality({p \in Procs : InCritical(p)}) <= 1
  /\ (\E p \in Procs : InCritical(p)) => ~(\E q \in Procs : InRead(q))

C7_Witness ==
  \E p, q \in Procs :
    /\ pc[p] = "trunc"
    /\ pc[q] \in {"lock", "rwait"}

\* C8: a SelectAll waits only for a writer, never for another reader, and what
\* it returns is the whole Record Set last written: it never reads the file
\* between a writer's truncation and its rewrite.
C8_ConcurrentReaders ==
  \A p \in Procs :
    /\ pc[p] = "rwait" => wHolder # 0
    /\ InRead(p) => ~(\E q \in Procs : pc[q] \in {"write", "trunc"})
    /\ (pc[p] = "rret" /\ res[p] = "nil") =>
         /\ loc[p].raw = file
         /\ loc[p].out = SelectAllOut(NowRecs)

C8_Witness ==
  /\ Cardinality({p \in Procs : InRead(p)}) >= 2
  /\ \E p \in Procs : pc[p] = "rret" /\ res[p] = "nil" /\ loc[p].out # EmptyBag

\* C9: an Insert or Update that returns TypeError, NotFoundError or
\* DuplicateKeyError leaves the file and the Indexes as they were.
C9_FailedMutationChangesNothing ==
  \A p \in Procs :
    (/\ (Returned(p, "Insert") \/ Returned(p, "Update"))
     /\ res[p] \in {"TypeError", "NotFoundError", "DuplicateKeyError"})
    => file = pre.file /\ Indexes = pre.idx

Joined(p) == pc[p] = "jret" /\ res[p] = "nil"

\* The buckets the scans of the call ranged over.
JoinBucket1(p) == Bucket(Indexes, op[p].key1)
JoinBucket2(p) == Bucket(loc[p].t2.idx, op[p].key2)

Matched(p, v1, v2) ==
  JoinBucket1(p)[v1][op[p].key1] = JoinBucket2(p)[v2][op[p].key2]

\* x is the row of r1 and r2: every field of r1 under "t1.", every field of
\* r2 under "t2.", nothing else (<<>> for a side that is left out).
IsMergedRow(x, r1, r2) ==
  /\ DOMAIN x = {"t1." \o k : k \in DOMAIN r1} \cup {"t2." \o k : k \in DOMAIN r2}
  /\ \A k \in DOMAIN r1 : x["t1." \o k] = r1[k]
  /\ \A k \in DOMAIN r2 : x["t2." \o k] = r2[k]

RowsOf(p, r1, r2) == {x \in BagToSet(loc[p].results) : IsMergedRow(x, r1, r2)}

ExactlyOneRow(p, r1, r2) ==
  /\ Cardinality(RowsOf(p, r1, r2)) = 1
  /\ \A x \in RowsOf(p, r1, r2) : CopiesIn(x, loc[p].results) = 1

\* C11: whatever the join type, the results of JoinTables hold exactly one
\* merged row for every pair of a record of t1.Indexes[key1] and a record of
\* t2.Indexes[key2] whose key values are equal, and an inner join returns
\* nothing but these rows.
C11_MatchedPairs ==
  \A p \in Procs :
    Joined(p) =>
      /\ \A v1 \in DOMAIN JoinBucket1(p), v2 \in DOMAIN JoinBucket2(p) :
           Matched(p, v1, v2) => ExactlyOneRow(p, JoinBucket1(p)[v1], JoinBucket2(p)[v2])
      /\ op[p].joinType = "InnerJoin" =>
           BagCardinality(loc[p].results) =
             Cardinality({pr \in (DOMAIN JoinBucket1(p)) \X (DOMAIN JoinBucket2(p)) :
                            Matched(p, pr[1], pr[2])})

C11_Witness ==
  \E p \in Procs :
    /\ Joined(p)
    /\ op[p].joinType = "InnerJoin"
    /\ op[p].key1 # op[p].key2
    /\ Cardinality(DOMAIN JoinBucket1(p)) = 2
    /\ Cardinality(DOMAIN JoinBucket2(p)) = 2
    /\ BagCardinality(loc[p].results) = 2

\* C12: a record of t1.Indexes[key1] with no match yields exactly one row of
\* its "t1." fields alone in a left or full outer join and no such row in an
\* inner or right join; a record of t2.Indexes[key2] with no match yields
\* exactly one row of its "t2." fields alone in a right or full outer join
\* and no such row in an inner or left join.
C12_UnmatchedRows ==
  \A p \in Procs :
    Joined(p) =>
      /\ \A v1 \in DOMAIN JoinBucket1(p) :
           (\A v2 \in DOMAIN JoinBucket2(p) : ~Matched(p, v1, v2)) =>
             IF op[p].joinType \in {"LeftJoin", "FullOuterJoin"}
             THEN ExactlyOneRow(p, JoinBucket1(p)[v1], <<>>)
             ELSE RowsOf(p, JoinBucket1(p)[v1], <<>>) = {}
      /\ \A v2 \in DOMAIN JoinBucket2(p) :
           (\A v1 \in DOMAIN JoinBucket1(p) : ~Matched(p, v1, v2)) =>
             IF op[p].joinType \in {"RightJoin", "FullOuterJoin"}
             THEN ExactlyOneRow(p, <<>>, JoinBucket2(p)[v2])
             ELSE RowsOf(p, <<>>, JoinBucket2(p)[v2]) = {}

C12_Witness ==
  \E p \in Procs :
    /\ Joined(p)
    /\ op[p].joinType = "RightJoin"
    /\ \E v1 \in DOMAIN JoinBucket1(p) : \A v2 \in DOMAIN JoinBucket2(p) : ~Matched(p, v1, v2)
    /\ \E v2 \in DOMAIN JoinBucket2(p) : \A v1 \in DOMAIN JoinBucket1(p) : ~Matched(p, v1, v2)
    /\ BagCardinality(loc[p].results) = 1

\* What JoinTables returns on two tables whose files hold recs1 and recs2,
\* when the two rebuilds range over the records in the orders o1 and o2.
JoinResults(recs1, recs2, key1, key2, joinType, o1, o2) ==
  JoinRows(Bucket(ResetAndLoadIndexesBody(<<>>, recs1, o1), key1),
           Bucket(ResetAndLoadIndexesBody(<<>>, recs2, o2), key2),
           key1, key2, joinType)

\* The rows of a bag whose fields all carry the prefix.
RowsWithPrefix(rows, prefix) ==
  [x \in {y \in BagToSet(rows) : DOMAIN y \subseteq {prefix \o k : k \in FieldNames}} |->
     rows[x]]

\* C13: the results of a full outer join are, as a bag, the rows an inner
\* join of the same tables on the same keys returns, plus the "t1."-only rows
\* of the left join, plus the "t2."-only rows of the right join, so that
\* |FullOuter| = |Left| + |Right| - |Inner|.
C13_FullOuterIsUnion ==
  \A p \in Procs :
    (Joined(p) /\ op[p].joinType = "FullOuterJoin") =>
      LET recs1 == readRecordsFromFile(file)
          recs2 == readRecordsFromFile(loc[p].t2.file)
          call(joinType, o) ==
            JoinResults(recs1, recs2, op[p].key1, op[p].key2, joinType, o[1], o[2])
          O == Orders(DOMAIN recs1) \X Orders(DOMAIN recs2)
      IN \A oi \in O, ol \in O, or \in O :
           /\ loc[p].results =
                call("InnerJoin", oi) (+) RowsWithPrefix(call("LeftJoin", ol), "t1.")
                  (+) RowsWithPrefix(call("RightJoin", or), "t2.")
           /\ BagCardinality(loc[p].results) + BagCardinality(call("InnerJoin", oi)) =
                BagCardinality(call("LeftJoin", ol)) + BagCardinality(call("RightJoin", or))

\* ----------------------------------------------------------- index claims
\* The Indexes are exactly those derived from the Record Set: a bucket holds
\* a value if and only if some record holds it under the bucket's field.
IndexDerived(idx, recs) ==
  \A f \in FieldNames \cup DOMAIN idx :
    DOMAIN Bucket(idx, f) = {recs[k][f] : k \in {j \in DOMAIN recs : f \in DOMAIN recs[j]}}

\* C14: when LoadIndexes has returned nil, whatever the Indexes held before,
\* Indexes[field][value] exists if and only if a record of the Record Set on
\* disk holds (field, value).
C14_RebuildIsDerived ==
  \A p \in Procs :
    (pc[p] = "lret" /\ res[p] = "nil") => IndexDerived(Indexes, NowRecs)

\* C15: a rebuild of the Indexes never writes them while an Insert, Update
\* or Delete on the table is inside its critical section.
C15_RebuildUnderLock ==
  \A p \in Procs : pc[p] = "lwrite" => \A q \in Procs : ~InCritical(q)

\* The entry shows the record stored under the key: its content, or a copy
\* of it made when the record was inserted under that key.
ShowsRecord(entry, key) == entry = NowRecs[key] \/ SprintfV(entry, PrimaryKey) = key

\* C16: between calls, whenever two or more records hold the same (field,
\* value) pair, Indexes[field][value] shows the one of them to which the pair
\* was written last, after Insert and Update and after a rebuild by
\* LoadIndexes.
C16_LastWriterWins ==
  (\A p \in Procs : pc[p] = "idle") =>
    \A pr \in DOMAIN written :
      Len(written[pr]) >= 2 =>
        /\ pr[2] \in DOMAIN Bucket(Indexes, pr[1])
        /\ ShowsRecord(Indexes[pr[1]][pr[2]], written[pr][Len(written[pr])])

\* Every entry of the Indexes is held by a record of the Record Set.
NoStaleEntry(idx, recs) ==
  \A f \in DOMAIN idx : \A v \in DOMAIN idx[f] :
    \E k \in DOMAIN recs : f \in DOMAIN recs[k] /\ recs[k][f] = v

\* C17: when JoinTables returns, the file of each of the two tables is as it
\* was when JoinTables was called, and after a successful return no Indexes
\* entry of either table is for a (field, value) pair that no record of its
\* Record Set holds.
C17_JoinReadOnly ==
  \A p \in Procs :
    pc[p] = "jret" =>
      /\ file = pre.file
      /\ loc[p].t2.file = op[p].t2.file
      /\ res[p] = "nil" =>
           /\ NoStaleEntry(Indexes, NowRecs)
           /\ NoStaleEntry(loc[p].t2.idx, readRecordsFromFile(loc[p].t2.file))

C17_Witness ==
  \E p \in Procs :
    /\ Joined(p)
    /\ NowRecs # EmptyRecords
    /\ ~NoStaleEntry(pre.idx, PreRecs)
    /\ ~NoStaleEntry(op[p].t2.idx, readRecordsFromFile(op[p].t2.file))

\* C18: in every interleaving of Insert, Update and Delete calls, whenever
\* the file is not in the middle of a rewrite and no file.Write has failed,
\* the persisted Record Set is what the calls that have written give when
\* applied one after the other, in the order in which they held the lock, to
\* the empty Record Set; the calls that returned an error count for nothing.
C18_NoLostUpdate ==
  (seqRecs # None /\ \A p \in Procs : pc[p] # "trunc") => NowRecs = seqRecs

\* Two Inserts that overlapped have both written: one holds the lock with its
\* record written, the other has since called again and waits for the lock.
C18_Witness ==
  \E p, q \in Procs :
    /\ p # q
    /\ Returned(p, "Insert")
    /\ res[p] = "nil"
    /\ pc[q] \in {"lock", "drain"}
    /\ seqRecs # None
    /\ Cardinality(DOMAIN NowRecs) = 2
    /\ NowRecs = seqRecs

\* C19: between calls, every entry of the Indexes is a record whose primary
\* key is a key of the Record Set and whose fields are the fields stored
\* under that key.
C19_IndexSound ==
  (\A p \in Procs : pc[p] = "idle") =>
    \A f \in DOMAIN Indexes : \A v \in DOMAIN Indexes[f] :
      /\ SprintfV(Indexes[f][v], PrimaryKey) \in DOMAIN NowRecs
      /\ NowRecs[SprintfV(Indexes[f][v], PrimaryKey)] = Indexes[f][v]

\* The lock is held only by the calls that are between their Lock or RLock
\* and their return.
LockHeldByCalls ==
  /\ wHolder # 0 => pc[wHolder] \in {"drain", "cs", "write", "trunc", "ret"}
  /\ \A p \in readers : InRead(p)

InProgress(p) == pc[p] # "idle"

\* C20: the lock is held only by calls in progress, so it is free whenever no
\* call is in progress, whichever way the calls before have returned; and
\* with every runnable goroutine scheduled, every call that has started
\* returns.
C20_LockReleaseAndProgress ==
  /\ [](LockHeldByCalls /\ ((\A p \in Procs : ~InProgress(p)) => wHolder = 0 /\ readers = {}))
  /\ \A p \in Procs : InProgress(p) ~> ~InProgress(p)

\* A writer holds the lock after a call that failed on I/O has returned,
\* while the other goroutine waits for it.
C20_Witness ==
  \E p, q \in Procs :
    /\ p # q
    /\ faults = MaxFaults
    /\ wHolder = q
    /\ pc[q] = "cs"
    /\ pc[p] \in {"lock", "rwait"}

====
